---- MODULE Spec2Model ----
(***************************************************************************)
(* State-machine model of RTSPDashStreamer, src/src/rtsp-dash-streamer.cpp: *)
(* the main thread (initialize, start, the GLib main loop, cleanup), the   *)
(* bus-message handler, the reconnect timer and the grace-delay timer,     *)
(* which the main loop dispatches, the pad-added callback, which rtspsrc   *)
(* calls on its streaming thread, and the signal handler.  GStreamer and   *)
(* GLib are the environment: the results of element creation and linking,  *)
(* bus messages and the expiry of timeout intervals are nondeterministic   *)
(* inputs.  rtspsrc posts a state-changed message for every state it       *)
(* passes through when the pipeline starts and when reconnect_rtsp_source  *)
(* resets it.                                                              *)
(***************************************************************************)
EXTENDS Integers, Sequences, FiniteSets, TLC

(* ---- bounds of the model ---- *)
MaxChains == 1          \* pad-added notifications that build a decode chain
MaxBus == 6             \* state-changed messages of rtspsrc in flight

(* ---- program constants ---- *)
GST_STATE_NULL == 1
GST_STATE_READY == 2
GST_STATE_PAUSED == 3
GST_STATE_PLAYING == 4

NoPad == 0              \* a NULL GstPad* / unset g_object data
DummyPad == 1           \* the selector sink pad requested by connect_dummy_source
MaxSourceId == 3        \* ids cycled through by the sources whose id the program keeps

VARIABLES
  pc,                   \* position of the main thread
  exit_code,            \* value returned by main (-1 while running)
  pipeline,             \* pipeline != nullptr
  pipeline_state,       \* state the pipeline was last set to
  loop,                 \* "null" | "stopped" | "running"  (GMainLoop and its is_running flag)
  bus_watch_id,
  reconnect_timeout_id,
  is_rtsp_connected,
  dummy_pad,            \* g_object data "dummy-pad" of the selector
  rtsp_pad,             \* g_object data "rtsp-pad" of the selector
  active_pad,           \* the selector's "active-pad" property
  tee_outputs,          \* linked src pads of the tee
  chains,               \* decode sub-chains that own a selector pad, in creation order
  chain_elems,          \* decode-element groups added to the pipeline
  sources,              \* GSources attached to the default main context
  next_id,              \* last source id the main context handed out
  busq,                 \* state-changed messages of rtspsrc posted and not yet handled
  last,                 \* the callback that ran last: what it was and whether it called stop()
  built,                \* the steps of initialize() that completed, in order
  streaming             \* rtspsrc's streaming thread: "idle" | "get_state" (inside pad-added)

vars == <<pc, exit_code, pipeline, pipeline_state, loop, bus_watch_id,
          reconnect_timeout_id, is_rtsp_connected, dummy_pad, rtsp_pad,
          active_pad, tee_outputs, chains, chain_elems, sources, next_id,
          busq, last, built, streaming>>

(* ---- GLib main context: sources and ids ---- *)
UsedIds(srcs) == {s.id : s \in srcs}

RECURSIVE ProbeId(_, _, _)
ProbeId(srcs, cand, n) ==
  IF n = 0 \/ cand \notin UsedIds(srcs) THEN cand
  ELSE ProbeId(srcs, (cand % MaxSourceId) + 1, n - 1)

\* g_source_attach: the next id after the last one handed out, skipping ids in use
NextSourceId(srcs, lastid) == ProbeId(srcs, (lastid % MaxSourceId) + 1, MaxSourceId)

\* variant: the source stays attached
g_source_remove_nothing(srcs, id) == srcs

g_source_remove(srcs, id) == {s \in srcs : s.id # id}

\* a timeout source is attached waiting; it becomes due when its interval has elapsed
g_timeout_add_seconds(srcs, lastid, callback) ==
  srcs \cup {[id |-> NextSourceId(srcs, lastid), kind |-> callback, due |-> FALSE]}

\* create_rtsp_decode_chain throws away the id of the source it attaches, so the
\* program can never name it: these sources are numbered apart, lowest free first
DiscardedIds == (MaxSourceId + 1)..(MaxSourceId + MaxChains)
DiscardedId(srcs) ==
  CHOOSE i \in DiscardedIds \ UsedIds(srcs) : \A j \in DiscardedIds \ UsedIds(srcs) : i <= j

g_timeout_add_seconds_discarded(srcs, callback) ==
  srcs \cup {[id |-> DiscardedId(srcs), kind |-> callback, due |-> FALSE]}

SourceIds == 1..(MaxSourceId + MaxChains)

ReconnectTimers == {s \in sources : s.kind = "reconnect_rtsp_source"}
SwitchTimers == {s \in sources : s.kind = "switch_to_rtsp_delayed"}

(* ---- selector switches ---- *)
\* variant: every call moves the selector to the other input
switch_toggle(active) == IF active = dummy_pad THEN rtsp_pad ELSE dummy_pad

switch_to_dummy_source(active) == IF dummy_pad # NoPad THEN dummy_pad ELSE active

\* variant: the recorded pad is made active without the null test
switch_to_rtsp_unchecked(active) == rtsp_pad

switch_to_rtsp_source(active) == IF rtsp_pad # NoPad THEN rtsp_pad ELSE active

(* ---- reconnect scheduler ---- *)
\* variant of schedule_rtsp_reconnect that leaves the pending timer attached
schedule_without_cancel(srcs, id, lastid) ==
  g_timeout_add_seconds(srcs, lastid, "reconnect_rtsp_source")

\* variant of schedule_rtsp_reconnect that cancels and attaches nothing
schedule_without_timer(srcs, id, lastid) ==
  IF id > 0 THEN g_source_remove(srcs, id) ELSE srcs

\* the sources of the main context after schedule_rtsp_reconnect()
schedule_rtsp_reconnect(srcs, id, lastid) ==
  LET kept == IF id > 0 THEN g_source_remove(srcs, id) ELSE srcs
  IN  g_timeout_add_seconds(kept, lastid, "reconnect_rtsp_source")

\* the id g_timeout_add_seconds returns to schedule_rtsp_reconnect()
ScheduledId(srcs, id, lastid) ==
  NextSourceId(IF id > 0 THEN g_source_remove(srcs, id) ELSE srcs, lastid)

(* ---- state-changed messages of rtspsrc ---- *)
StartupMsgs == << <<GST_STATE_NULL, GST_STATE_READY>>,
                  <<GST_STATE_READY, GST_STATE_PAUSED>>,
                  <<GST_STATE_PAUSED, GST_STATE_PLAYING>> >>

ResetMsgs == << <<GST_STATE_PLAYING, GST_STATE_PAUSED>>,
                <<GST_STATE_PAUSED, GST_STATE_READY>>,
                <<GST_STATE_READY, GST_STATE_NULL>> >> \o StartupMsgs

\* record of a callback: ev/src name it, old/new are the states of a state-changed
\* message, stop says it called stop(), repl says its schedule_rtsp_reconnect()
\* replaced a pending timer
Ev(e, s, st) == [ev |-> e, src |-> s, stop |-> st, repl |-> FALSE, old |-> 0, new |-> 0]

Init ==
  /\ pc = "initialize"
  /\ exit_code = -1
  /\ pipeline = FALSE
  /\ pipeline_state = GST_STATE_NULL
  /\ loop = "null"
  /\ bus_watch_id = 0
  /\ reconnect_timeout_id = 0
  /\ is_rtsp_connected = FALSE
  /\ dummy_pad = NoPad
  /\ rtsp_pad = NoPad
  /\ active_pad = NoPad
  /\ tee_outputs = 0
  /\ chains = << >>
  /\ chain_elems = 0
  /\ sources = {}
  /\ next_id = 0
  /\ busq = << >>
  /\ last = Ev("none", "none", FALSE)
  /\ built = << >>
  /\ streaming = "idle"

(* ---- main thread ---- *)
\* the profiles initialize() builds, in its order
Profiles == <<"fullhd", "hd">>

Step(s, o) == [step |-> s, of |-> o]

\* create_dash_pipeline(q): the steps that can make it return false
ProfileSteps(q) == <<Step("elements", q), Step("link", q), Step("tee_pad", q),
                     Step("queue_pad", q), Step("tee_link", q)>>

\* variant: the profile branches are built before the fallback and the selector
\* are linked
BuildSteps_profiles_first ==
  <<Step("pipeline", "graph"), Step("rtspsrc", "graph"), Step("videotestsrc", "graph"),
    Step("input-selector", "graph"), Step("tee", "graph")>>
  \o ProfileSteps(Profiles[1]) \o ProfileSteps(Profiles[2])
  \o <<Step("elements", "dummy"), Step("link", "dummy"), Step("pad_link", "dummy"),
       Step("selector_tee", "graph")>>

\* initialize(): the checked steps in program order; the first one that fails
\* makes initialize() return false
BuildSteps ==
  <<Step("pipeline", "graph"), Step("rtspsrc", "graph"), Step("videotestsrc", "graph"),
    Step("input-selector", "graph"), Step("tee", "graph"),
    Step("elements", "dummy"), Step("link", "dummy"), Step("pad_link", "dummy"),
    Step("selector_tee", "graph")>>
  \o ProfileSteps(Profiles[1]) \o ProfileSteps(Profiles[2])

InitFailures == {BuildSteps[i] : i \in DOMAIN BuildSteps}

\* the steps completed when step f fails
StepsBefore(f) == SubSeq(BuildSteps, 1, (CHOOSE i \in DOMAIN BuildSteps : BuildSteps[i] = f) - 1)

Done(b, s, o) == \E i \in DOMAIN b : b[i] = Step(s, o)

\* tee outputs linked to a profile branch
TeeOutputs(b) == Cardinality({i \in DOMAIN Profiles : Done(b, "tee_link", Profiles[i])})

\* variant: the results of create_dash_pipeline are not checked
initialize_ok_unchecked_profiles(b) == Done(b, "selector_tee", "graph")

\* the value initialize() returns
initialize_ok(b) == b = BuildSteps

\* initialize(): runs the steps up to the first that fails
initialize ==
  /\ pc = "initialize"
  /\ \E b \in {StepsBefore(f) : f \in InitFailures} \cup {BuildSteps} :
       /\ built' = b
       /\ pipeline' = Done(b, "pipeline", "graph")
       /\ dummy_pad' = IF Done(b, "pad_link", "dummy") THEN DummyPad ELSE NoPad
       /\ tee_outputs' = TeeOutputs(b)
       /\ IF initialize_ok(b)
            THEN /\ bus_watch_id' = NextSourceId(sources, next_id)
                 /\ sources' = sources \cup {[id |-> NextSourceId(sources, next_id),
                                              kind |-> "bus_message_handler", due |-> FALSE]}
                 /\ next_id' = NextSourceId(sources, next_id)
                 /\ pc' = "start"
                 /\ UNCHANGED exit_code
            ELSE /\ UNCHANGED <<bus_watch_id, sources, next_id>>
                 /\ pc' = "exit"
                 /\ exit_code' = 1
  /\ UNCHANGED <<pipeline_state, loop, reconnect_timeout_id, is_rtsp_connected,
                 rtsp_pad, active_pad, chains, chain_elems, busq, last, streaming>>

\* start(), up to gst_element_set_state(pipeline, GST_STATE_PLAYING)
start ==
  /\ pc = "start"
  /\ pipeline
  /\ active_pad' = switch_to_dummy_source(active_pad)
  /\ \E ok \in BOOLEAN :
       IF ok
         THEN /\ pipeline_state' = GST_STATE_PLAYING
              /\ busq' = busq \o StartupMsgs
              /\ pc' = "loop_new"
              /\ UNCHANGED exit_code
         ELSE /\ pc' = "exit"
              /\ exit_code' = 1
              /\ UNCHANGED <<pipeline_state, busq>>
  /\ UNCHANGED <<built, streaming, pipeline, loop, bus_watch_id, reconnect_timeout_id, is_rtsp_connected,
                 dummy_pad, rtsp_pad, tee_outputs, chains, chain_elems, sources,
                 next_id, last>>

\* loop = g_main_loop_new(NULL, FALSE)
main_loop_new ==
  /\ pc = "loop_new"
  /\ loop' = "stopped"
  /\ pc' = "loop_run"
  /\ UNCHANGED <<built, streaming, exit_code, pipeline, pipeline_state, bus_watch_id, reconnect_timeout_id,
                 is_rtsp_connected, dummy_pad, rtsp_pad, active_pad, tee_outputs, chains,
                 chain_elems, sources, next_id, busq, last>>

\* g_main_loop_run(loop) is entered: is_running is set
main_loop_run ==
  /\ pc = "loop_run"
  /\ loop' = "running"
  /\ pc' = "loop"
  /\ UNCHANGED <<built, streaming, exit_code, pipeline, pipeline_state, bus_watch_id, reconnect_timeout_id,
                 is_rtsp_connected, dummy_pad, rtsp_pad, active_pad, tee_outputs, chains,
                 chain_elems, sources, next_id, busq, last>>

\* variant of stop() that flips the loop's running flag
stop_toggle(l) == IF l = "running" THEN "stopped" ELSE IF l = "stopped" THEN "running" ELSE l

\* variant of stop() that never quits the loop
stop_without_quit(l) == l

\* stop(): the loop after g_main_loop_quit, if there is one
stop(l) == IF l # "null" THEN "stopped" ELSE l

\* cleanup(): timers and bus watch the object knows are removed, the pipeline is set
\* to NULL and released with every element and pad it owns, bus and loop are released
cleanup ==
  /\ LET s1 == IF reconnect_timeout_id > 0
                 THEN g_source_remove(sources, reconnect_timeout_id) ELSE sources
         s2 == IF bus_watch_id > 0 THEN g_source_remove(s1, bus_watch_id) ELSE s1
     IN  sources' = s2
  /\ reconnect_timeout_id' = 0
  /\ bus_watch_id' = 0
  /\ pipeline' = FALSE
  /\ pipeline_state' = GST_STATE_NULL
  /\ busq' = << >>
  /\ dummy_pad' = NoPad
  /\ rtsp_pad' = NoPad
  /\ active_pad' = NoPad
  /\ tee_outputs' = 0
  /\ chains' = << >>
  /\ chain_elems' = 0
  /\ loop' = "null"
  /\ pc' = "done"
  /\ UNCHANGED <<built, streaming, is_rtsp_connected, next_id, last>>

\* g_main_loop_run returns once is_running is cleared; start() returns true, main
\* clears g_streamer and returns 0, and ~RTSPDashStreamer() runs cleanup().  Setting
\* the pipeline to NULL joins rtspsrc's streaming thread, so a pad-added callback
\* in progress returns first.
main_loop_return ==
  /\ pc = "loop"
  /\ loop = "stopped"
  /\ streaming = "idle"
  /\ exit_code' = 0
  /\ cleanup

\* main returns 1 after initialize() or start() failed: ~RTSPDashStreamer() runs cleanup()
main_return_failure ==
  /\ pc = "exit"
  /\ UNCHANGED exit_code
  /\ cleanup

\* g_main_loop_run is iterating the default main context
Dispatching == pc = "loop"

\* is_running is still set: the loop goes on to poll for new events.  Once it is
\* cleared the current iteration still dispatches what is ready, and run returns.
Polling == Dispatching /\ loop = "running"

(* ---- bus watch: handle_bus_message ---- *)
ErrorSources == {"rtsp_src", "decode_chain", "other"}

\* GST_MESSAGE_SRC(msg) == GST_OBJECT(rtsp_src)
IsRtspSrc(src) == src = "rtsp_src"

\* GST_MESSAGE_ERROR from element src
bus_error(src) ==
  /\ Polling
  /\ bus_watch_id > 0
  /\ src = "decode_chain" => chain_elems > 0
  /\ IF IsRtspSrc(src)
       THEN /\ active_pad' = switch_to_dummy_source(active_pad)
            /\ sources' = schedule_rtsp_reconnect(sources, reconnect_timeout_id, next_id)
            /\ reconnect_timeout_id' = ScheduledId(sources, reconnect_timeout_id, next_id)
            /\ next_id' = ScheduledId(sources, reconnect_timeout_id, next_id)
            /\ last' = [Ev("error", src, FALSE) EXCEPT !.repl = reconnect_timeout_id > 0]
            /\ UNCHANGED loop
       ELSE /\ loop' = stop(loop)
            /\ last' = Ev("error", src, TRUE)
            /\ UNCHANGED <<active_pad, sources, reconnect_timeout_id, next_id>>
  /\ UNCHANGED <<built, streaming, pc, exit_code, pipeline, pipeline_state, bus_watch_id, is_rtsp_connected,
                 dummy_pad, rtsp_pad, tee_outputs, chains, chain_elems, busq>>

\* GST_MESSAGE_EOS
bus_eos ==
  /\ Polling
  /\ bus_watch_id > 0
  /\ loop' = stop(loop)
  /\ last' = Ev("eos", "other", TRUE)
  /\ UNCHANGED <<built, streaming, pc, exit_code, pipeline, pipeline_state, bus_watch_id, reconnect_timeout_id,
                 is_rtsp_connected, dummy_pad, rtsp_pad, active_pad, tee_outputs, chains,
                 chain_elems, sources, next_id, busq>>

\* new_state == GST_STATE_PLAYING
ReachedRunning(old_state, new_state) == new_state = GST_STATE_PLAYING

\* variant of LeftRunning that misses the step from PLAYING to PAUSED
LeftRunning_below_paused(old_state, new_state) ==
  old_state = GST_STATE_PLAYING /\ new_state < GST_STATE_PAUSED

\* old_state == GST_STATE_PLAYING && new_state < GST_STATE_PLAYING
LeftRunning(old_state, new_state) ==
  old_state = GST_STATE_PLAYING /\ new_state < GST_STATE_PLAYING

\* GST_MESSAGE_STATE_CHANGED from rtsp_src: the oldest message in flight
bus_state_changed ==
  /\ Dispatching
  /\ bus_watch_id > 0
  /\ busq # << >>
  /\ LET old_state == Head(busq)[1]
         new_state == Head(busq)[2]
         msg == [Ev("state_changed", "rtsp_src", FALSE)
                   EXCEPT !.old = old_state, !.new = new_state]
     IN  IF ReachedRunning(old_state, new_state)
           THEN /\ is_rtsp_connected' = TRUE
                /\ active_pad' = switch_to_rtsp_source(active_pad)
                /\ last' = msg
                /\ UNCHANGED <<sources, reconnect_timeout_id, next_id>>
           ELSE IF LeftRunning(old_state, new_state)
           THEN /\ is_rtsp_connected' = FALSE
                /\ active_pad' = switch_to_dummy_source(active_pad)
                /\ sources' = schedule_rtsp_reconnect(sources, reconnect_timeout_id, next_id)
                /\ reconnect_timeout_id' = ScheduledId(sources, reconnect_timeout_id, next_id)
                /\ next_id' = ScheduledId(sources, reconnect_timeout_id, next_id)
                /\ last' = [msg EXCEPT !.repl = reconnect_timeout_id > 0]
           ELSE /\ last' = msg
                /\ UNCHANGED <<is_rtsp_connected, active_pad, sources,
                               reconnect_timeout_id, next_id>>
  /\ busq' = Tail(busq)
  /\ UNCHANGED <<built, streaming, pc, exit_code, pipeline, pipeline_state, loop, bus_watch_id,
                 dummy_pad, rtsp_pad, tee_outputs, chains, chain_elems>>

(* ---- timers ---- *)
\* rtspsrc drops its stream pads when it is set to NULL: no chain stays linked to it
Unlinked(cs) == [i \in DOMAIN cs |-> [cs[i] EXCEPT !.src_linked = FALSE]]

\* variant: the callback returns TRUE and GLib re-arms the source
return_TRUE(srcs, t) == (srcs \ {t}) \cup {[t EXCEPT !.due = FALSE]}

\* a timeout callback that returns FALSE: GLib destroys the source
return_FALSE(srcs, t) == srcs \ {t}

\* reconnect_rtsp_source: the reconnect timer fires.  Setting rtspsrc to NULL joins
\* its streaming thread, so a pad-added callback in progress returns first.
reconnect_rtsp_source ==
  /\ Dispatching
  /\ streaming = "idle"
  /\ Len(busq) + Len(ResetMsgs) <= MaxBus
  /\ \E t \in ReconnectTimers :
       /\ t.due
       /\ sources' = return_FALSE(sources, t)
  /\ busq' = busq \o ResetMsgs
  /\ chains' = Unlinked(chains)
  /\ reconnect_timeout_id' = 0
  /\ last' = Ev("reconnect", "timer", FALSE)
  /\ UNCHANGED <<built, streaming, pc, exit_code, pipeline, pipeline_state, loop, bus_watch_id,
                 is_rtsp_connected, dummy_pad, rtsp_pad, active_pad, tee_outputs,
                 chain_elems, next_id>>

\* switch_to_rtsp_delayed: the grace-delay timer fires
switch_to_rtsp_delayed ==
  /\ Dispatching
  /\ \E t \in SwitchTimers :
       /\ t.due
       /\ sources' = return_FALSE(sources, t)
  /\ active_pad' = switch_to_rtsp_source(active_pad)
  /\ last' = Ev("switch_delayed", "timer", FALSE)
  /\ UNCHANGED <<built, streaming, pc, exit_code, pipeline, pipeline_state, loop, bus_watch_id,
                 reconnect_timeout_id, is_rtsp_connected, dummy_pad, rtsp_pad,
                 tee_outputs, chains, chain_elems, next_id, busq>>

\* the interval of the pending timeout source with this id elapses
\* (5 s for the reconnect timer, 1 s for the grace delay)
timeout_elapses(id) ==
  /\ Polling
  /\ \E t \in ReconnectTimers \cup SwitchTimers :
       /\ t.id = id
       /\ ~t.due
       /\ sources' = (sources \ {t}) \cup {[t EXCEPT !.due = TRUE]}
  /\ UNCHANGED <<built, streaming, pc, exit_code, pipeline, pipeline_state, loop, bus_watch_id,
                 reconnect_timeout_id, is_rtsp_connected, dummy_pad, rtsp_pad, active_pad,
                 tee_outputs, chains, chain_elems, next_id, busq, last>>

(* ---- pad-added of rtspsrc ---- *)
\* names of caps structures, cut where the filter's prefix ends
PadNames == { <<"application", "/", "x-rtp">>, <<"application", "/", "x-rtp", "-stream">>,
              <<"application", "/", "x-rtcp">>, <<"video", "/", "x-raw">> }

MediaValues == {"video", "audio", "application"}

\* what gst_pad_get_current_caps / gst_pad_query_caps give for an announced pad:
\* no caps, or a first structure with a name and perhaps a string field "media"
PadCaps ==
  {c \in [caps : BOOLEAN, name : PadNames \cup {<< >>}, has_media : BOOLEAN,
          media : MediaValues \cup {""}] :
     /\ c.caps <=> c.name # << >>
     /\ c.has_media <=> c.media # ""
     /\ ~c.caps => ~c.has_media}

g_str_has_prefix(str, prefix) ==
  Len(str) >= Len(prefix) /\ SubSeq(str, 1, Len(prefix)) = prefix

\* variant: the filter looks at the media field only
IsVideoPad_any_name(c) == c.caps /\ c.has_media /\ c.media = "video"

\* connect_rtsp_pad's filter
IsVideoPad(c) ==
  /\ c.caps
  /\ g_str_has_prefix(c.name, <<"application", "/", "x-rtp">>)
  /\ c.has_media
  /\ c.media = "video"

PadOfChain(i) == DummyPad + i

\* what GStreamer answers while create_rtsp_decode_chain builds a chain: were the
\* five elements made, did gst_element_link_many succeed, did the source pad link
\* to the depayloader, did the chain link to the selector pad.  A step that is
\* not reached has no answer.
ChainOutcomes ==
  {o \in [made : BOOLEAN, linked : BOOLEAN, src_ok : BOOLEAN, sel_ok : BOOLEAN] :
     /\ ~o.made => ~o.linked
     /\ ~o.linked => (~o.src_ok /\ ~o.sel_ok)}

NotBuilt == [made |-> FALSE, linked |-> FALSE, src_ok |-> FALSE, sel_ok |-> FALSE]

\* on_rtsp_pad_added -> connect_rtsp_pad -> create_rtsp_decode_chain, called by
\* rtspsrc on its streaming thread, up to the call of gst_element_get_state
on_rtsp_pad_added(caps, o) ==
  /\ streaming = "idle"
  /\ pipeline_state = GST_STATE_PLAYING
  /\ chain_elems < MaxChains
  /\ IsVideoPad(caps) \/ o = NotBuilt
  /\ last' = Ev(IF IsVideoPad(caps) THEN "pad_added" ELSE "pad_ignored", "rtsp_src", FALSE)
  /\ IF IsVideoPad(caps) /\ o.made
       THEN /\ chain_elems' = chain_elems + 1
            /\ IF o.linked
                 THEN /\ chains' = Append(chains, [src_linked |-> o.src_ok,
                                                   sel_linked |-> o.sel_ok,
                                                   running |-> FALSE])
                      /\ rtsp_pad' = PadOfChain(Len(chains) + 1)
                      /\ streaming' = "get_state"
                 ELSE UNCHANGED <<chains, rtsp_pad, streaming>>
       ELSE UNCHANGED <<chain_elems, chains, rtsp_pad, streaming>>
  /\ UNCHANGED <<built, pc, exit_code, pipeline, pipeline_state, loop, bus_watch_id,
                 reconnect_timeout_id, is_rtsp_connected, dummy_pad, active_pad,
                 tee_outputs, busq, sources, next_id>>

\* gst_element_get_state returns in create_rtsp_decode_chain; on SUCCESS the
\* grace-delay timer is attached, and the callback returns
get_state_returns(ok) ==
  /\ streaming = "get_state"
  /\ streaming' = "idle"
  /\ chains' = [chains EXCEPT ![Len(chains)].running = ok]
  /\ IF ok
       THEN sources' = g_timeout_add_seconds_discarded(sources, "switch_to_rtsp_delayed")
       ELSE UNCHANGED sources
  /\ UNCHANGED <<built, pc, exit_code, pipeline, pipeline_state, loop, bus_watch_id,
                 reconnect_timeout_id, is_rtsp_connected, dummy_pad, rtsp_pad, active_pad,
                 tee_outputs, chain_elems, busq, last, next_id>>

(* ---- process signals ---- *)
\* g_streamer != nullptr: set before initialize(), cleared when start() has returned
g_streamer == pc # "done"

\* signal_handler (SIGINT, SIGTERM); after a normal return g_streamer is null and
\* the handler only prints
signal_handler ==
  /\ pc # "done" \/ exit_code = 0
  /\ loop' = IF g_streamer THEN stop(loop) ELSE loop
  /\ last' = Ev("signal", "signal", g_streamer)
  /\ UNCHANGED <<built, streaming, pc, exit_code, pipeline, pipeline_state, bus_watch_id,
                 reconnect_timeout_id, is_rtsp_connected, dummy_pad, rtsp_pad, active_pad,
                 tee_outputs, chains, chain_elems, sources, next_id, busq>>

Next ==
  \/ initialize
  \/ start
  \/ main_loop_new
  \/ main_loop_run
  \/ main_loop_return
  \/ main_return_failure
  \/ \E src \in ErrorSources : bus_error(src)
  \/ bus_eos
  \/ bus_state_changed
  \/ reconnect_rtsp_source
  \/ switch_to_rtsp_delayed
  \/ \E id \in SourceIds : timeout_elapses(id)
  \/ \E caps \in PadCaps, o \in ChainOutcomes : on_rtsp_pad_added(caps, o)
  \/ \E ok \in BOOLEAN : get_state_returns(ok)
  \/ signal_handler

Spec == Init /\ [][Next]_vars

\* the main thread runs, the main loop dispatches what is ready, and the interval
\* of a timeout source that stays attached elapses
Fairness ==
  /\ WF_vars(initialize) /\ WF_vars(start) /\ WF_vars(main_loop_new)
  /\ WF_vars(main_loop_run) /\ WF_vars(main_loop_return) /\ WF_vars(main_return_failure)
  /\ WF_vars(bus_state_changed)
  /\ WF_vars(\E ok \in BOOLEAN : get_state_returns(ok))
  /\ WF_vars(reconnect_rtsp_source) /\ WF_vars(switch_to_rtsp_delayed)
  /\ \A id \in SourceIds : WF_vars(timeout_elapses(id))

FairSpec == Spec /\ Fairness

TypeOK ==
  /\ pc \in {"initialize", "start", "loop_new", "loop_run", "loop", "exit", "done"}
  /\ loop \in {"null", "stopped", "running"}
  /\ active_pad \in 0..(DummyPad + MaxChains)
  /\ Len(busq) <= MaxBus

(***************************************************************************)
(* Properties                                                              *)
(***************************************************************************)
\* start() has selected the fallback pad and set the pipeline to PLAYING
Started == pc \in {"loop_new", "loop_run", "loop"}

ReconnectPending == ReconnectTimers # {}

\* the branch behind a selector pad is linked from its source to the selector and running
BranchLinkedAndRunning(pad) ==
  \/ pad = DummyPad /\ dummy_pad = DummyPad /\ pipeline_state = GST_STATE_PLAYING
  \/ /\ pad > DummyPad
     /\ pad - DummyPad \in DOMAIN chains
     /\ chains[pad - DummyPad].src_linked
     /\ chains[pad - DummyPad].sel_linked
     /\ chains[pad - DummyPad].running

\* the bus watch has just handled an error message from this element
ErrorHandled(src) == pc = "loop" /\ last.ev = "error" /\ last.src = src

\* C1: in every state after start(), whenever is_rtsp_connected is false the
\* selector's active pad is the fallback (dummy) pad.
C1_FallbackUnlessLive ==
  (Started /\ ~is_rtsp_connected) => active_pad = DummyPad

\* C2: once the pipeline runs, the selector has an active input and that
\* input's branch is fully linked and running.
C2_ActiveBranchLinkedRunning ==
  Started => (active_pad # NoPad /\ BranchLinkedAndRunning(active_pad))

\* C3: an error from rtspsrc or from a node of its decode sub-chain is
\* recoverable: the handler does not call stop(), the fallback pad is active
\* and a reconnect timer is pending.
C3_LineageErrorRecoverable ==
  (ErrorHandled("rtsp_src") \/ ErrorHandled("decode_chain"))
    => (~last.stop /\ active_pad = DummyPad /\ ReconnectPending)

\* C5: at the end of the handler of an error from rtspsrc the connection state
\* is Disconnected (is_rtsp_connected false), the fallback pad is active and a
\* reconnect timer is pending.
C5_SourceErrorDisconnects ==
  ErrorHandled("rtsp_src")
    => (~is_rtsp_connected /\ active_pad = DummyPad /\ ReconnectPending)

\* C8: no reconnect timer is pending while the connection is Connecting (a
\* decode chain is ready and its switch to live is scheduled) or Live.
C8_NoReconnectTimerOnceConnected ==
  (pc = "loop" /\ (is_rtsp_connected \/ SwitchTimers # {})) => ~ReconnectPending

\* the bus watch has just handled a message that is fatal to the pipeline
FatalHandled ==
  /\ pc = "loop"
  /\ last.stop
  /\ last.ev = "eos" \/ (last.ev = "error" /\ last.src = "other")

Terminated == pc = "done" /\ ~pipeline /\ pipeline_state = GST_STATE_NULL

\* C4: an error from a node outside the live source's lineage, or an
\* end-of-stream message, quits the event loop and schedules no failover or
\* reconnect; eventually the pipeline is set to NULL, released, and main
\* returns 0.
C4_FatalShutdown ==
  /\ [][(bus_eos \/ bus_error("other"))
          => (loop' = "stopped"
              /\ UNCHANGED <<active_pad, is_rtsp_connected, sources,
                             reconnect_timeout_id>>)]_vars
  /\ (FatalHandled ~> (Terminated /\ exit_code = 0))

C4_Witness ==
  Terminated /\ exit_code = 0 /\ last.stop /\ last.ev \in {"eos", "error"}

\* the reconnect timer has just fired and reset rtspsrc
Attempted == pc = "loop" /\ last.ev = "reconnect"

\* the live source announced a pad
SourceReached == chain_elems > 0 \/ last.ev \in {"pad_added", "pad_ignored"}

\* a schedule_rtsp_reconnect() call replaces a timer that had not fired yet
Superseding ==
  /\ reconnect_timeout_id > 0
  /\ reconnect_timeout_id' > 0
  /\ reconnect_timeout_id' # reconnect_timeout_id

Scheduling ==
  \/ bus_error("rtsp_src")
  \/ bus_state_changed /\ LeftRunning(Head(busq)[1], Head(busq)[2])

\* C7: at most one reconnect timer is pending, and it is the one
\* reconnect_timeout_id names; a schedule call leaves exactly one timer, the
\* new one with its whole interval ahead, and a firing leaves none, so any
\* number of schedule calls before the firing give one reconnect attempt.
C7_Debounce ==
  /\ [](/\ Cardinality(ReconnectTimers) <= 1
        /\ \A t \in ReconnectTimers : t.id = reconnect_timeout_id)
  /\ [][Scheduling
          => (/\ Cardinality(ReconnectTimers') = 1
              /\ \A t \in ReconnectTimers' : t.id = next_id' /\ ~t.due)]_vars
  /\ [][reconnect_rtsp_source => ~ReconnectPending']_vars

C7_Witness ==
  pc = "loop" /\ last.repl /\ Cardinality(ReconnectTimers) = 1

\* the bus watch has just handled rtspsrc leaving PLAYING for a lower state
LeftRunningHandled ==
  /\ pc = "loop"
  /\ last.ev = "state_changed"
  /\ last.old = GST_STATE_PLAYING
  /\ last.new < GST_STATE_PLAYING

\* C9: when rtspsrc leaves PLAYING for a lower state, at the end of that
\* handler is_rtsp_connected is false, the fallback pad is active, a reconnect
\* timer is pending and stop() was not called.
C9_LeaveRunningFailsOver ==
  LeftRunningHandled
    => (/\ ~is_rtsp_connected
        /\ active_pad = DummyPad
        /\ \E t \in ReconnectTimers : t.id = reconnect_timeout_id
        /\ ~last.stop)

C9_Witness == LeftRunningHandled /\ Polling /\ last.new = GST_STATE_PAUSED

\* C10: the reconnect timer fires once: the callback resets rtspsrc (NULL,
\* then PLAYING), clears reconnect_timeout_id and leaves no reconnect timer;
\* the next one is attached only by the handler of a source error or of
\* rtspsrc leaving PLAYING.
C10_FiresOnce ==
  /\ [](Attempted => (reconnect_timeout_id = 0 /\ ~ReconnectPending))
  /\ [][reconnect_rtsp_source => busq' = busq \o ResetMsgs]_vars
  /\ [][(~ReconnectPending /\ ReconnectPending')
          => (ErrorHandled("rtsp_src")' \/ LeftRunningHandled')]_vars

C10_Witness == Attempted /\ Polling /\ busq = ResetMsgs

\* C11: when cleanup() has set the pipeline to NULL and released it, no
\* reconnect timer and no grace-delay timer (switch_to_rtsp_delayed) is pending.
C11_NoTimerAtRelease ==
  Terminated => (ReconnectTimers = {} /\ SwitchTimers = {})

\* the signal handler has just run
Signalled == last.ev = "signal"

\* everything but the record of the last callback
progvars == <<pc, exit_code, pipeline, pipeline_state, loop, bus_watch_id,
              reconnect_timeout_id, is_rtsp_connected, dummy_pad, rtsp_pad, active_pad,
              tee_outputs, chains, chain_elems, sources, next_id, busq, built, streaming>>

\* C12: shutdown is idempotent and terminal.  A stop() on a loop that is not
\* running changes nothing; after cleanup() every field cleanup() tests is
\* cleared, so a second cleanup() would do nothing; and once terminated no step
\* changes the active pad, the connection state, the timers or anything else.
C12_ShutdownIdempotent ==
  /\ [][(signal_handler /\ loop # "running") => UNCHANGED progvars]_vars
  /\ [](pc = "done" => (/\ reconnect_timeout_id = 0 /\ bus_watch_id = 0
                        /\ ~pipeline /\ loop = "null" /\ ReconnectTimers = {}))
  /\ [][pc = "done" => UNCHANGED progvars]_vars

\* a signal arrived after the normal return: g_streamer was null
C12_Witness == Terminated /\ exit_code = 0 /\ Signalled /\ ~last.stop

\* a step of profile q completed
ProfileTouched(b, q) == \E i \in DOMAIN b : b[i].of = q

\* profile q is built and its queue is linked to an output of the tee
ProfileLinked(b, q) == Done(b, "tee_link", q)

\* C14: the build is all-or-nothing.  When a step of initialize() fails, no
\* step of a later profile runs, the pipeline is never set to PLAYING, the loop
\* is never created or entered and main returns 1; the pipeline is PLAYING only
\* with every profile linked to the tee.
C14_BuildAllOrNothing ==
  /\ (pc # "initialize" /\ built # BuildSteps)
       => (/\ pc \in {"exit", "done"}
           /\ exit_code = 1
           /\ pipeline_state = GST_STATE_NULL
           /\ loop = "null"
           /\ bus_watch_id = 0
           /\ \A i, j \in DOMAIN Profiles :
                (i < j /\ ~ProfileLinked(built, Profiles[i]))
                  => ~ProfileTouched(built, Profiles[j]))
  /\ pipeline_state = GST_STATE_PLAYING
       => (/\ \A i \in DOMAIN Profiles : ProfileLinked(built, Profiles[i])
           /\ tee_outputs = Len(Profiles))

\* the second profile failed after the first was linked; main returned 1
C14_Witness ==
  /\ Terminated /\ exit_code = 1
  /\ ProfileLinked(built, Profiles[1])
  /\ ProfileTouched(built, Profiles[2]) /\ ~ProfileLinked(built, Profiles[2])

\* position of a completed step in the build log
StepIndex(b, s, o) == CHOOSE i \in DOMAIN b : b[i] = Step(s, o)

\* C15: the fallback branch is linked to the selector and the selector to the
\* tee before a step of any profile branch runs; each profile requests one tee
\* pad and links it; after a successful initialize() the tee has exactly two
\* linked outputs and no decode chain, live selector pad or timer exists.
C15_BuildOrder ==
  /\ \A i \in DOMAIN built :
       built[i].of \in {Profiles[k] : k \in DOMAIN Profiles}
         => (/\ Done(built, "pad_link", "dummy")
             /\ Done(built, "selector_tee", "graph")
             /\ StepIndex(built, "pad_link", "dummy") < StepIndex(built, "selector_tee", "graph")
             /\ StepIndex(built, "selector_tee", "graph") < i)
  /\ \A k \in DOMAIN Profiles :
       /\ Cardinality({i \in DOMAIN built : built[i] = Step("tee_pad", Profiles[k])}) <= 1
       /\ ProfileLinked(built, Profiles[k])
            => (/\ Done(built, "tee_pad", Profiles[k])
                /\ StepIndex(built, "tee_pad", Profiles[k])
                     < StepIndex(built, "tee_link", Profiles[k]))
  /\ pc = "start"
       => (/\ built = BuildSteps
           /\ tee_outputs = Len(Profiles)
           /\ dummy_pad = DummyPad
           /\ chains = << >> /\ chain_elems = 0 /\ rtsp_pad = NoPad
           /\ ReconnectTimers = {} /\ SwitchTimers = {})

C15_Witness == pc = "start" /\ built = BuildSteps /\ tee_outputs = Len(Profiles)

\* C16: a selector switch is idempotent.  switch_to_dummy_source() with the
\* fallback pad active and switch_to_rtsp_source() with the recorded live pad
\* active return the active pad they were given, a second call returns what
\* the first did, and the grace-timer callback that finds the live pad active
\* changes nothing but its own (one-shot) source.
C16_SwitchIdempotent ==
  /\ [](/\ (dummy_pad # NoPad /\ active_pad = dummy_pad)
              => switch_to_dummy_source(active_pad) = active_pad
        /\ (rtsp_pad # NoPad /\ active_pad = rtsp_pad)
              => switch_to_rtsp_source(active_pad) = active_pad
        /\ switch_to_dummy_source(switch_to_dummy_source(active_pad))
              = switch_to_dummy_source(active_pad)
        /\ switch_to_rtsp_source(switch_to_rtsp_source(active_pad))
              = switch_to_rtsp_source(active_pad))
  /\ [][(switch_to_rtsp_delayed /\ rtsp_pad # NoPad /\ active_pad = rtsp_pad)
          => UNCHANGED <<pc, exit_code, pipeline, pipeline_state, loop, bus_watch_id,
                         reconnect_timeout_id, is_rtsp_connected, dummy_pad, rtsp_pad,
                         active_pad, tee_outputs, chains, chain_elems, busq,
                         built>>]_vars

\* a source error handled when no live pad was ever recorded: start() had
\* already selected the fallback pad, the handler selected it again
C16_Witness ==
  /\ ErrorHandled("rtsp_src") /\ rtsp_pad = NoPad
  /\ active_pad = DummyPad /\ ~last.repl

\* rtspsrc's streaming thread is inside the pad-added callback, which has
\* built a decode chain and waits in gst_element_get_state
InPadAdded == streaming = "get_state"

\* the callbacks the main loop dispatches: the bus watch and the two timers
LoopCallbacks == {"error", "eos", "state_changed", "reconnect", "switch_delayed"}

\* C17: the construction of a decode chain by the pad-added callback never
\* runs concurrently with a bus-message handler or a timer callback: while the
\* pad-added callback is in progress no main-loop callback has run since it began.
C17_PadAddedSerialized == InPadAdded => last.ev \notin LoopCallbacks

\* rtspsrc has announced no video pad for which a decode chain was made.  A
\* video pad whose elements cannot be made leaves the streamer as it was, so the
\* states with NoVideoPad are those of the runs without any video pad.
NoVideoPad == chain_elems = 0 /\ rtsp_pad = NoPad

\* C18: as long as rtspsrc has announced no video pad (the source is
\* unreachable), once the pipeline is started is_rtsp_connected is false and
\* the fallback pad is active in every state, and an error from rtspsrc never
\* stops the loop or the pipeline.
C18_UnreachableStaysOnFallback ==
  /\ []((Started /\ NoVideoPad) => (~is_rtsp_connected /\ active_pad = DummyPad))
  /\ [][(NoVideoPad /\ bus_error("rtsp_src"))
          => (loop' = loop /\ pipeline_state' = pipeline_state)]_vars

\* the selector's active pad becomes a live pad in this step
SwitchesToLive == active_pad' # active_pad /\ active_pad' > DummyPad

\* a grace-delay timer is attached in this step
GraceTimerAttached == Cardinality(SwitchTimers') > Cardinality(SwitchTimers)

\* C19: every switch to the live pad is made by the grace-timer callback, with
\* the decode chain of that pad linked at both ends and reported running; no
\* other callback (in particular the handler of rtspsrc's state-changed-to-
\* PLAYING message) switches to it; and the grace timer is attached only when
\* both pad links of the new chain succeeded.
C19_SwitchAfterGraceDelay ==
  /\ [][SwitchesToLive
          => (switch_to_rtsp_delayed /\ BranchLinkedAndRunning(active_pad)')]_vars
  /\ [][GraceTimerAttached
          => (/\ chains'[Len(chains')].src_linked
              /\ chains'[Len(chains')].sel_linked)]_vars

\* C20: at most one decode chain and one live selector pad exist in the
\* pipeline; once reconnect_rtsp_source has reset rtspsrc, rtsp-pad does not
\* name the pad of a chain left over from the connection before the reset; and
\* the fallback branch and both profile branches stay linked while the
\* pipeline runs.
C20_OneChainPerConnection ==
  /\ chain_elems <= 1
  /\ Len(chains) <= 1
  /\ Attempted => rtsp_pad = NoPad
  /\ Started => (dummy_pad = DummyPad /\ tee_outputs = Len(Profiles))

\* C13: an interrupt delivered at any point after the signal handlers are
\* installed (during initialize(), in start() before the loop exists, or while
\* the loop runs) is eventually followed by the terminated state.
C13_SignalTerminates == Signalled ~> Terminated

\* the announced port carries RTP video: a structure named application/x-rtp...
\* with a media field equal to video
VideoPort(c) ==
  /\ c.name \in { <<"application", "/", "x-rtp">>, <<"application", "/", "x-rtp", "-stream">> }
  /\ c.media = "video"

\* the step is a call of the pad-added callback: the callback records itself,
\* and when the record was already there it has added the elements of a chain
PadAnnounced ==
  /\ last'.ev \in {"pad_added", "pad_ignored"}
  /\ last' # last \/ chain_elems' # chain_elems

\* C21: a pad announced by rtspsrc leads to a decode chain exactly when it
\* carries RTP video: for such a pad the elements that can be made are added
\* and a chain that links records its selector pad as rtsp-pad; for every
\* other pad (audio, other media, no media field, not RTP, no caps) nothing of
\* the streamer's state changes.
C21_VideoOnlyFilter ==
  [][PadAnnounced
      => \A c \in PadCaps, o \in ChainOutcomes :
           on_rtsp_pad_added(c, o)
             => (/\ (VideoPort(c) /\ o.made) => chain_elems' = chain_elems + 1
                 /\ (VideoPort(c) /\ o.linked)
                      => (/\ chains' # chains
                          /\ rtsp_pad' = PadOfChain(Len(chains'))
                          /\ InPadAdded')
                 /\ ~VideoPort(c)
                      => (UNCHANGED progvars /\ last'.ev = "pad_ignored"))]_vars

\* a pad that is not RTP video has just been announced and ignored
C21_Witness ==
  /\ pc = "loop" /\ last.ev = "pad_ignored"
  /\ chain_elems = 0 /\ rtsp_pad = NoPad /\ SwitchTimers = {}

\* initialize() has returned true and cleanup() has not run
Initialized == pc \in {"start", "loop_new", "loop_run", "loop"}

\* the bus watch handles rtspsrc's state-changed-to-PLAYING message in this step
HandlesReachedRunning ==
  bus_state_changed /\ ReachedRunning(Head(busq)[1], Head(busq)[2])

\* the bus watch handles a message that makes it call switch_to_dummy_source()
HandlesFailover ==
  \/ bus_error("rtsp_src")
  \/ bus_state_changed /\ LeftRunning(Head(busq)[1], Head(busq)[2])

\* C22: while no live selector pad has been recorded (rtsp-pad unset) a
\* switch_to_rtsp_source() call, in particular the one made by the handler of
\* rtspsrc's state-changed-to-PLAYING message, leaves the fallback pad active;
\* and after a successful initialize() dummy-pad is recorded, so every
\* switch_to_dummy_source() call makes the fallback pad active.
C22_SwitchNeedsRecordedPad ==
  /\ []((Started /\ rtsp_pad = NoPad)
          => (active_pad = DummyPad /\ switch_to_rtsp_source(active_pad) = DummyPad))
  /\ [][(rtsp_pad = NoPad /\ HandlesReachedRunning) => active_pad' = active_pad]_vars
  /\ [](Initialized
          => (dummy_pad = DummyPad /\ switch_to_dummy_source(active_pad) = DummyPad))
  /\ [][(start \/ HandlesFailover) => active_pad' = DummyPad]_vars

\* rtspsrc's state-changed-to-PLAYING message was handled before any decode
\* chain was built
C22_Witness ==
  /\ pc = "loop" /\ last.ev = "state_changed" /\ last.new = GST_STATE_PLAYING
  /\ rtsp_pad = NoPad /\ active_pad = DummyPad /\ is_rtsp_connected

\* C23: reconnect_timeout_id is non-zero exactly when a reconnect timer is
\* attached to the main context, and it is then the id of that one timer and
\* of no other source; so the g_source_remove calls of
\* schedule_rtsp_reconnect() and cleanup() always name an attached timer.
C23_TimerIdTracksPending ==
  /\ reconnect_timeout_id # 0 <=> ReconnectTimers # {}
  /\ \A t \in ReconnectTimers : t.id = reconnect_timeout_id
  /\ \A s \in sources : s.id = reconnect_timeout_id => s \in ReconnectTimers
  /\ Cardinality(ReconnectTimers) <= 1
  /\ bus_watch_id # reconnect_timeout_id \/ bus_watch_id = 0

\* a schedule_rtsp_reconnect() call has removed the pending timer and attached
\* a new one, and the id names the new one
C23_Witness ==
  /\ pc = "loop" /\ last.repl
  /\ reconnect_timeout_id # 0
  /\ \E t \in ReconnectTimers : t.id = reconnect_timeout_id /\ ~t.due

====
